---- MODULE Spec2Model ----
(***************************************************************************)
(* The crawl-and-match engine of the greenwashing dashboard                *)
(* (src/crawler.py): crawl_iter as a state machine, with the pure helpers  *)
(* compile_kw_patterns, extract_text, page_counts and _same_site as        *)
(* operators.                                                              *)
(*                                                                         *)
(* Strings are sequences of one-character strings, so that strip,          *)
(* startswith/endswith, word boundaries and substring tests are computed   *)
(* as the code computes them.  A URL is the record urlparse returns        *)
(* (scheme, netloc, path, fragment); a netloc and a content type are       *)
(* sequences of tokens, so that str.endswith and the `in` substring test   *)
(* are suffix and membership tests on tokens.                              *)
(***************************************************************************)
EXTENDS Integers, Sequences, FiniteSets, TLC

\* ------------------------------------------------------------------ bounds
MaxPagesBound == 3      \* max_pages ranges over 0..MaxPagesBound
MaxDepthBound == 2      \* max_depth ranges over 0..MaxDepthBound
MaxLinks == 2           \* anchors per page
MaxTextLen == 4         \* characters of a text scored on its own
MaxElems == 2           \* top-level elements of a document processed on its own
MaxPerKw == 2           \* max_per_kw ranges over 1..MaxPerKw
MaxUrls == 2            \* entries of the URL list of a targeted scan

\* ------------------------------------------------------- generic sequences
Range(s) == {s[i] : i \in 1..Len(s)}

SeqsUpTo(S, n) == UNION {[1..k -> S] : k \in 0..n}

\* str.endswith
EndsWith(s, t) ==
    /\ Len(t) <= Len(s)
    /\ SubSeq(s, Len(s) - Len(t) + 1, Len(s)) = t

\* --------------------------------------------------------------- characters
\* \w of the re module, on the alphabet the texts are drawn from
IsWordChar(c) == c \in {"a", "b", "A", "B"}

\* re.IGNORECASE compares case-folded characters
Lower(c) == IF c = "A" THEN "a" ELSE IF c = "B" THEN "b" ELSE c

IsSpace(c) == c \in {" ", "\n"}

RECURSIVE LStrip(_)
LStrip(s) == IF s # <<>> /\ IsSpace(Head(s)) THEN LStrip(Tail(s)) ELSE s

RECURSIVE RStrip(_)
RStrip(s) ==
    IF s # <<>> /\ IsSpace(s[Len(s)]) THEN RStrip(SubSeq(s, 1, Len(s) - 1)) ELSE s

\* str.strip()
Strip(s) == RStrip(LStrip(s))

\* -------------------------------------------------------------------- URLs
Url(s, n, p, f) == [scheme |-> s, netloc |-> n, path |-> p, fragment |-> f]

\* an href attribute value; bad marks a value urlparse rejects with
\* ValueError (such as "http://[")
Href(s, n, p, f, b) ==
    [scheme |-> s, netloc |-> n, path |-> p, fragment |-> f, bad |-> b]

\* hosts of the modelled web: the seed's host, a foreign host whose name
\* merely ends with the seed's host, an unrelated host
HostSeed == <<"ex">>
HostLookalike == <<"evil", "ex">>
HostOther == <<"other">>

\* the seed strings "", "https://ex/" and "ex/" (a record with scheme "" is
\* the scheme-less string netloc+path)
SeedBlank == Url("", <<>>, "", "")
Seeds ==
    { SeedBlank,
      Url("https", HostSeed, "/", ""),
      Url("", HostSeed, "/", "") }

\* the href values pages carry
Hrefs ==
    { Href("", <<>>, "/a", "x", FALSE),            \* "/a#x"
      Href("https", HostLookalike, "/", "", FALSE),\* "https://evilex/"
      Href("https", HostOther, "/", "", FALSE),    \* "https://other/"
      Href("http", <<>>, "", "", TRUE) }           \* "http://["

\* urljoin raises ValueError on an href urlparse rejects
UrljoinRaises(h) == h.bad

\* urljoin(url, href)
Urljoin(base, h) ==
    IF h.scheme # "" THEN Url(h.scheme, h.netloc, h.path, h.fragment)
    ELSE IF h.path # "" THEN Url(base.scheme, base.netloc, h.path, h.fragment)
    ELSE Url(base.scheme, base.netloc, base.path, h.fragment)

\* up._replace(fragment="").geturl()
StripFragment(u) == [u EXCEPT !.fragment = ""]

\* _same_site: urlparse(u).netloc.endswith(root_netloc)
SameSite(u, root_netloc) == EndsWith(u.netloc, root_netloc)

\* ------------------------------------------------------ keyword patterns
\* the keyword specifications "a*", "ab" and the malformed raw pattern "/(/"
KwStem == <<"a", "*">>
KwWord == <<"a", "b">>
KwBadRegex == <<"/", "(", "/">>

\* further specifications: "a", "A*", "b*", "a-", "-a", "-a*", "a-*", the raw
\* pattern "/a/" and " a " (which strips to "a")
KwA == <<"a">>
KwUpperStem == <<"A", "*">>
KwBStem == <<"b", "*">>
KwADash == <<"a", "-">>
KwDashA == <<"-", "a">>
KwDashAStem == <<"-", "a", "*">>
KwADashStem == <<"a", "-", "*">>
KwRaw == <<"/", "a", "/">>
KwPadded == <<" ", "a", " ">>

\* the keyword lists of the scorings
KeywordLists ==
    { <<KwA>>, <<KwWord>>, <<KwStem>>, <<KwUpperStem>>, <<KwADash>>, <<KwDashA>>,
      <<KwDashAStem>>, <<KwADashStem>>, <<KwRaw>>, <<KwStem, KwBStem>>,
      <<KwBStem, KwStem>>, <<KwA, KwPadded>>, <<KwBadRegex, KwStem>> }

\* the exclusion lists scored with a keyword list: none, the keyword list
\* itself, "ab"
ExcludeLists(kws) == { <<>>, kws, <<KwWord>> }

\* the characters of the scored texts
TextChars == {"a", "b", " ", "-"}

\* the (keywords, excludes) argument pairs of a crawl
Queries ==
    { << <<KwStem>>, <<>> >>,
      << <<KwStem>>, <<KwWord>> >>,
      << <<KwBadRegex, KwStem>>, <<>> >>,
      << <<KwStem>>, <<KwBadRegex>> >> }

RECURSIVE ParenBalance(_, _)
ParenBalance(s, open) ==
    IF s = <<>> THEN open = 0
    ELSE IF Head(s) = "(" THEN ParenBalance(Tail(s), open + 1)
    ELSE IF Head(s) = ")" THEN open > 0 /\ ParenBalance(Tail(s), open - 1)
    ELSE ParenBalance(Tail(s), open)

\* re.compile accepts the expression (re.error otherwise): on this alphabet,
\* the expressions with balanced parentheses
ReCompiles(inner) == ParenBalance(inner, 0)

\* kw.startswith("/") and kw.endswith("/") and len(kw) >= 3
IsRawSpec(kw) == Len(kw) >= 3 /\ kw[1] = "/" /\ kw[Len(kw)] = "/"

\* the compiled pattern of one stripped, non-empty specification
CompileOne(kw) ==
    IF IsRawSpec(kw)
    THEN [kw |-> kw, kind |-> "regex",
          lit |-> SelectSeq(SubSeq(kw, 2, Len(kw) - 1), LAMBDA c : c \notin {"(", ")"})]
    ELSE IF kw[Len(kw)] = "*"
    THEN [kw |-> kw, kind |-> "stem", lit |-> SubSeq(kw, 1, Len(kw) - 1)]
    ELSE [kw |-> kw, kind |-> "word", lit |-> kw]

\* the specification makes compile_kw_patterns raise re.error
SpecRaises(raw) ==
    LET kw == Strip(raw)
    IN  kw # <<>> /\ IsRawSpec(kw) /\ ~ReCompiles(SubSeq(kw, 2, Len(kw) - 1))

\* pats[kw] = ...: a key keeps the position of its first insertion
RECURSIVE CompilePats(_, _)
CompilePats(keywords, pats) ==
    IF keywords = <<>> THEN pats
    ELSE LET kw == Strip(Head(keywords))
         IN  IF kw = <<>> \/ \E i \in 1..Len(pats) : pats[i].kw = kw
             THEN CompilePats(Tail(keywords), pats)
             ELSE CompilePats(Tail(keywords), Append(pats, CompileOne(kw)))

\* compile_kw_patterns: raises at the first malformed raw pattern, else the
\* patterns in insertion order
compile_kw_patterns(keywords) ==
    IF \E i \in 1..Len(keywords) : SpecRaises(keywords[i])
    THEN [raised |-> TRUE, pats |-> <<>>]
    ELSE [raised |-> FALSE, pats |-> CompilePats(keywords, <<>>)]

\* ----------------------------------------------------------------- matching
WordAt(text, i) == i >= 1 /\ i <= Len(text) /\ IsWordChar(text[i])

\* \b at the position before character i
Boundary(text, i) == WordAt(text, i - 1) # WordAt(text, i)

LitAt(lit, text, i) ==
    /\ i + Len(lit) - 1 <= Len(text)
    /\ \A k \in 1..Len(lit) : Lower(text[i + k - 1]) = Lower(lit[k])

RECURSIVE WordRun(_, _)
WordRun(text, i) == IF WordAt(text, i) THEN 1 + WordRun(text, i + 1) ELSE 0

\* the position after the match of pat that starts at i, 0 when none starts there
MatchEnd(pat, text, i) ==
    LET e == i + Len(pat.lit)
    IN  IF ~LitAt(pat.lit, text, i) THEN 0
        ELSE IF pat.kind = "regex" THEN e
        ELSE IF ~Boundary(text, i) THEN 0
        ELSE IF pat.kind = "word" THEN (IF Boundary(text, e) THEN e ELSE 0)
        ELSE LET f == e + WordRun(text, e)
             IN  IF Boundary(text, f) THEN f ELSE 0

\* the positions at which a match of pat starts
MatchStarts(pat, text) == {i \in 1..(Len(text) + 1) : MatchEnd(pat, text, i) # 0}

\* the scan of finditer from position pos: the leftmost match at or after
\* pos, then the scan from its end (one further after an empty match)
RECURSIVE FindFrom(_, _, _, _)
FindFrom(pat, text, pos, starts) ==
    LET cand == {i \in starts : i >= pos}
    IN  IF cand = {} THEN <<>>
        ELSE LET i == CHOOSE c \in cand : \A d \in cand : c <= d
                 e == MatchEnd(pat, text, i)
             IN  <<[start |-> i - 1, end |-> e - 1]>>
                 \o FindFrom(pat, text, IF e = i THEN i + 1 ELSE e, starts)

\* pat.finditer(text) from position pos: m.start() and m.end() of the
\* matches, left to right, non-overlapping
FindSpans(pat, text, pos) == FindFrom(pat, text, pos, MatchStarts(pat, text))

\* pat.finditer(text) from position pos: the matched tokens m.group(0)
FindIter(pat, text, pos) ==
    LET spans == FindSpans(pat, text, pos)
    IN  [k \in 1..Len(spans) |-> SubSeq(text, spans[k].start + 1, spans[k].end)]

\* ex.search(token)
Search(pat, token) == \E i \in 1..(Len(token) + 1) : MatchEnd(pat, token, i) # 0

\* the matches of pat that page_counts keeps
Kept(pat, text, ex_pats) ==
    SelectSeq(FindIter(pat, text, 1),
              LAMBDA token : ~\E j \in 1..Len(ex_pats) : Search(ex_pats[j], token))

RECURSIVE PageCountsFrom(_, _, _, _, _)
PageCountsFrom(text, patterns, ex_pats, present, total) ==
    IF patterns = <<>> THEN [keywords |-> present, total |-> total]
    ELSE LET kept == Kept(Head(patterns), text, ex_pats)
         IN  IF kept # <<>>
             THEN PageCountsFrom(text, Tail(patterns), ex_pats,
                                 Append(present, Head(patterns).kw), total + Len(kept))
             ELSE PageCountsFrom(text, Tail(patterns), ex_pats, present, total)

page_counts_Distinct(text, patterns, ex_pats) ==
    LET r == PageCountsFrom(text, patterns, ex_pats, <<>>, 0)
    IN  [r EXCEPT !.total = Len(r.keywords)]

\* page_counts: the matching keywords in pattern order (the code joins them
\* with ", ") and the number of kept matches
page_counts(text, patterns, ex_pats) == PageCountsFrom(text, patterns, ex_pats, <<>>, 0)

\* --------------------------------------------------------------------- HTML
ALLOWED_TAGS == {"h1", "h2", "h3", "h4", "h5", "h6", "p", "li", "strong", "em", "span", "a"}

StrippedTags_NoAside == {"nav", "header", "footer"}

StrippedTags == {"nav", "header", "footer", "aside"}

NoHref == Href("", <<>>, "", "", FALSE)

\* an element: its tag, the text it holds directly (ahead of its children),
\* its href attribute and its child elements
Node(tag, t, kids) ==
    [tag |-> tag, text |-> t, hashref |-> FALSE, href |-> NoHref, kids |-> kids]

Para(t) == Node("p", t, <<>>)

Anchor(h) == [tag |-> "a", text |-> <<>>, hashref |-> TRUE, href |-> h, kids |-> <<>>]

\* the page bodies: "ab" (one word starting with a) and "b"
Texts == { <<"a", "b">>, <<"b">> }

\* a document: a paragraph followed by anchors; parses = FALSE is markup the
\* parser rejects (BeautifulSoup raises)
MkPage(t, links) ==
    [parses |-> TRUE,
     elems |-> <<Para(t)>> \o [i \in 1..Len(links) |-> Anchor(links[i])]]

RejectedPage == [parses |-> FALSE, elems |-> <<>>]

Pages == {MkPage(t, ls) : t \in Texts, ls \in SeqsUpTo(Hrefs, MaxLinks)}

\* BeautifulSoup(html, "lxml") returns a soup
Parses(html) == html.parses

\* the response bodies, by whether the parser accepts them
ParsedBodies == {d \in Pages \cup {RejectedPage} : Parses(d)}

RejectedBodies == {d \in Pages \cup {RejectedPage} : ~Parses(d)}

\* the bodies of the responses whose body is never read
UnreadBodies == {RejectedPage, MkPage(<<"b">>, <<>>)}

RECURSIVE JoinLines(_)
JoinLines(texts) ==
    IF texts = <<>> THEN <<>>
    ELSE IF Len(texts) = 1 THEN texts[1]
    ELSE texts[1] \o <<"\n">> \o JoinLines(Tail(texts))

\* find_all without a filter: the elements below nodes, in document order
RECURSIVE Flatten(_)
Flatten(nodes) ==
    IF nodes = <<>> THEN <<>>
    ELSE <<Head(nodes)>> \o Flatten(Head(nodes).kids) \o Flatten(Tail(nodes))

\* el.decompose() for every element with one of the tags: the element goes
\* with all that it contains
RECURSIVE Decomposed(_, _)
Decomposed(nodes, tags) ==
    IF nodes = <<>> THEN <<>>
    ELSE IF Head(nodes).tag \in tags THEN Decomposed(Tail(nodes), tags)
    ELSE <<[Head(nodes) EXCEPT !.kids = Decomposed(Head(nodes).kids, tags)]>>
         \o Decomposed(Tail(nodes), tags)

\* the stripped, non-empty strings below nodes, in document order
RECURSIVE Strings(_)
Strings(nodes) ==
    IF nodes = <<>> THEN <<>>
    ELSE (IF Strip(Head(nodes).text) # <<>> THEN <<Strip(Head(nodes).text)>> ELSE <<>>)
         \o Strings(Head(nodes).kids) \o Strings(Tail(nodes))

RECURSIVE JoinSpaces(_)
JoinSpaces(texts) ==
    IF texts = <<>> THEN <<>>
    ELSE IF Len(texts) = 1 THEN texts[1]
    ELSE texts[1] \o <<" ">> \o JoinSpaces(Tail(texts))

\* tag.get_text(" ", strip=True)
GetText(el) == JoinSpaces(Strings(<<el>>))

\* extract_text: drop nav/header/footer/aside, keep the non-empty texts of
\* the allowed tags, join them with newlines
extract_text(html) ==
    LET body == Decomposed(html.elems, StrippedTags)
        tags == SelectSeq(Flatten(body),
                          LAMBDA el : el.tag \in ALLOWED_TAGS /\ GetText(el) # <<>>)
    IN  JoinLines([i \in 1..Len(tags) |-> GetText(tags[i])])

\* soup.find_all("a", href=True): the href values in document order
AnchorHrefs(html) ==
    LET as == SelectSeq(Flatten(html.elems), LAMBDA el : el.tag = "a" /\ el.hashref)
    IN  [i \in 1..Len(as) |-> as[i].href]

\* ---------------------------------------------------------------- responses
\* content-type header values: "text/html", "application/pdf" and
\* "application/vnd.oasis.opendocument.text"
CTypes ==
    { <<"text", "/", "html">>,
      <<"application", "/", "pdf">>,
      <<"application", "/", "vnd.oasis.opendocument.", "text">> }

\* r.status_code of the responses
Statuses == {200, 404}

FetchRejected_AnyStatus(status, ctype) ==
    status >= 200 \/ ("text" \notin Range(ctype) /\ "html" \notin Range(ctype))

\* r.status_code >= 400 or ("text" not in ctype and "html" not in ctype)
FetchRejected(status, ctype) ==
    status >= 400 \/ ("text" \notin Range(ctype) /\ "html" \notin Range(ctype))

\* ------------------------------------------------------------------- state
VARIABLES
    pc,          \* position of the generator: init, loop, yielded, done, raised
    seed, keywords, excludes, max_pages, max_depth, delay,   \* the arguments
    root_netloc, \* netloc of the normalised seed
    q,           \* the frontier: sequence of [url, depth]
    seen,        \* the visited set
    pats, ex_pats,
    done,        \* number of records produced
    cur,         \* url, depth and html of the iteration suspended at the yield
    out,         \* the records yielded so far
    depths,      \* history: the depth of each yielded record
    deep,        \* history: the URLs enqueued at a depth above max_depth
    nfetch,      \* history: number of requests.get calls
    last,        \* history: what the latest step did
    cbs,         \* history: the progress_cb calls of the latest step
    slept,       \* history: the seconds slept since the latest requests.get
    sc,          \* a scoring of one text on its own: inputs, patterns, row
    runs,        \* two invocations of crawl_iter: the locals of each
    site,        \* the site the two invocations crawl
    doc,         \* one document on its own: scored, or searched for snippets
    scan         \* a call of scan_pages: its arguments and locals

vars == <<pc, seed, keywords, excludes, max_pages, max_depth, delay, root_netloc, q,
          seen, pats, ex_pats, done, cur, out, depths, deep, nfetch, last, cbs, slept, sc,
          runs, site, doc, scan>>

\* the state a crawl never touches
others == <<sc, runs, site, doc, scan>>

args == <<seed, keywords, excludes, max_pages, max_depth, delay>>

NoUrl == Url("", <<>>, "", "")

NoCur == [url |-> NoUrl, depth |-> 0, html |-> RejectedPage]

\* the record of a step: the entry it dequeued, whether requests.get raised,
\* the response's status and content type, whether its body is markup the
\* parser accepts, whether the anchor loop raised
Step(op, url, depth, neterr, status, ctype, parses, linkerr) ==
    [op |-> op, url |-> url, depth |-> depth, neterr |-> neterr, status |-> status,
     ctype |-> ctype, parses |-> parses, linkerr |-> linkerr]

NoStep == Step("none", NoUrl, 0, FALSE, 0, <<>>, FALSE, FALSE)

NoRow == [url |-> NoUrl, keywords |-> <<>>, hits |-> 0, total |-> 0]

\* a scoring: its position (input, compiled, raised, scored), the keyword and
\* exclusion lists, the text, the compiled patterns and the row
Scoring(p, kws, exs, text, kp, ep, row) ==
    [pc |-> p, keywords |-> kws, excludes |-> exs, text |-> text, pats |-> kp,
     ex_pats |-> ep, row |-> row]

NoScoring == Scoring("off", <<>>, <<>>, <<>>, <<>>, <<>>, NoRow)

\* no pair of invocations is running
NoRuns == <<>>

NoSite == "none"

\* no document is being processed, no scan is running
NoDoc == [pc |-> "off"]

NoScan == [pc |-> "off"]

\* progress_cb(done, len(q))
Call(d, qq) == [done |-> d, queued |-> Len(qq)]

\* the delay arguments, in seconds
Delays == {0, 1}

\* a call of crawl_iter with its arguments drawn from the given sets
InitWith(seeds, queries, delays) ==
    /\ pc = "init"
    /\ seed \in seeds
    /\ \E qr \in queries : keywords = qr[1] /\ excludes = qr[2]
    /\ max_pages \in 0..MaxPagesBound
    /\ max_depth \in 0..MaxDepthBound
    /\ delay \in delays
    /\ root_netloc = <<>>
    /\ q = <<>>
    /\ seen = {}
    /\ pats = <<>>
    /\ ex_pats = <<>>
    /\ done = 0
    /\ cur = NoCur
    /\ out = <<>>
    /\ depths = <<>>
    /\ deep = {}
    /\ nfetch = 0
    /\ last = NoStep
    /\ cbs = <<>>
    /\ slept = 0
    /\ sc = NoScoring
    /\ runs = NoRuns
    /\ site = NoSite
    /\ doc = NoDoc
    /\ scan = NoScan

\* the crawls with a politeness delay, as the dashboard runs them
Init == InitWith(Seeds, Queries, {d \in Delays : d > 0})

\* not seed.strip()
SeedIsBlank(sd) == sd.scheme = "" /\ sd.netloc = <<>> /\ sd.path = ""

\* start.strip('/') of a scheme-less seed: the slashes at its two ends
StripSlashes(sd) ==
    IF sd.fragment = "" /\ sd.path = "/" THEN [sd EXCEPT !.path = ""] ELSE sd

\* seed normalisation: prefix https:// when the seed has no scheme
NormaliseSeed(sd) ==
    IF sd.scheme = "" THEN [StripSlashes(sd) EXCEPT !.scheme = "https"] ELSE sd

\* compile_kw_patterns(excludes or []) if excludes else {}
CompileExcludes(ex) ==
    IF ex = <<>> THEN [raised |-> FALSE, pats |-> <<>>] ELSE compile_kw_patterns(ex)

\* crawl_iter up to the loop: seed check, normalisation, compilation
Start ==
    /\ pc = "init"
    /\ IF SeedIsBlank(seed)
       THEN /\ pc' = "done"
            /\ UNCHANGED <<root_netloc, q, pats, ex_pats>>
       ELSE LET start == NormaliseSeed(seed)
                kp == compile_kw_patterns(keywords)
                ep == CompileExcludes(excludes)
            IN  /\ root_netloc' = start.netloc
                /\ q' = <<[url |-> start, depth |-> 0]>>
                /\ IF kp.raised
                   THEN pc' = "raised" /\ UNCHANGED <<pats, ex_pats>>
                   ELSE IF ep.raised
                   THEN pc' = "raised" /\ pats' = kp.pats /\ UNCHANGED ex_pats
                   ELSE pc' = "loop" /\ pats' = kp.pats /\ ex_pats' = ep.pats
    /\ last' = [NoStep EXCEPT !.op = "start"]
    /\ cbs' = <<>>
    /\ UNCHANGED <<args, others, seen, done, cur, out, depths, deep, nfetch, slept>>

LoopCond_OffByOne(qq, sn, mp) == qq # <<>> /\ Cardinality(sn) <= mp

\* while q and len(seen) < max_pages
LoopCond(qq, sn, mp) == qq # <<>> /\ Cardinality(sn) < mp

PopIndex_Last(qq) == Len(qq)

\* q.pop(0)
PopIndex(qq) == 1

Popped(qq) == qq[PopIndex(qq)]

AfterPop(qq) == SubSeq(qq, 1, PopIndex(qq) - 1) \o SubSeq(qq, PopIndex(qq) + 1, Len(qq))

SkipCond_DepthOffByOne(url, depth, sn, md) == url \in sn \/ depth > md + 1

\* url in seen or depth > max_depth
SkipCond(url, depth, sn, md) == url \in sn \/ depth > md

Running_Eager(p) == p \in {"loop", "yielded"}

\* control is inside the generator's loop: next() was called and the body
\* has not reached the yield
Running(p) == p = "loop"

\* the loop condition fails: the generator returns
LoopExit ==
    /\ Running(pc)
    /\ ~LoopCond(q, seen, max_pages)
    /\ pc' = "done"
    /\ last' = [NoStep EXCEPT !.op = "exit"]
    /\ cbs' = <<>>
    /\ UNCHANGED <<args, others, root_netloc, q, seen, pats, ex_pats, done, cur, out, depths,
                   deep, nfetch, slept>>

\* an iteration that discards the dequeued entry
Skip ==
    /\ Running(pc)
    /\ LoopCond(q, seen, max_pages)
    /\ LET e == Popped(q)
       IN  /\ SkipCond(e.url, e.depth, seen, max_depth)
           /\ q' = AfterPop(q)
           /\ last' = Step("skip", e.url, e.depth, FALSE, 0, <<>>, FALSE, FALSE)
    /\ cbs' = <<Call(done, q')>>
    /\ UNCHANGED <<pc, args, others, root_netloc, seen, pats, ex_pats, done, cur, out, depths,
                   deep, nfetch, slept>>

\* the row of a fetched page
Row(url, counts) ==
    [url |-> url, keywords |-> counts.keywords, hits |-> counts.total,
     total |-> counts.total]

\* an iteration whose fetch raises or is rejected, or whose markup the parser
\* rejects: the except and the early continue
FetchFail ==
    /\ Running(pc)
    /\ LoopCond(q, seen, max_pages)
    /\ LET e == Popped(q)
       IN  /\ ~SkipCond(e.url, e.depth, seen, max_depth)
           /\ \/ \* requests.get raises
                 last' = Step("fail", e.url, e.depth, TRUE, 0, <<>>, FALSE, FALSE)
              \/ \* error status or wrong content type: the body is not read
                 \E st \in Statuses, ct \in CTypes, html \in UnreadBodies :
                    /\ FetchRejected(st, ct)
                    /\ last' = Step("fail", e.url, e.depth, FALSE, st, ct, Parses(html), FALSE)
              \/ \* the parser rejects the markup: extract_text raises
                 \E st \in Statuses, ct \in CTypes, html \in RejectedBodies :
                    /\ ~FetchRejected(st, ct)
                    /\ last' = Step("fail", e.url, e.depth, FALSE, st, ct, Parses(html), FALSE)
           /\ seen' = seen \cup {e.url}
           /\ q' = AfterPop(q)
    /\ nfetch' = nfetch + 1
    /\ cbs' = <<Call(done, q')>>
    /\ slept' = 0
    /\ UNCHANGED <<pc, args, others, root_netloc, pats, ex_pats, done, cur, out, depths, deep>>

\* an iteration that reaches the yield: the row is handed to the consumer
FetchYield ==
    /\ Running(pc)
    /\ LoopCond(q, seen, max_pages)
    /\ LET e == Popped(q)
       IN  /\ ~SkipCond(e.url, e.depth, seen, max_depth)
           /\ \E st \in Statuses, ct \in CTypes, html \in ParsedBodies :
                /\ ~FetchRejected(st, ct)
                /\ cur' = [url |-> e.url, depth |-> e.depth, html |-> html]
                /\ out' = Append(out, Row(e.url, page_counts(extract_text(html), pats, ex_pats)))
                /\ last' = Step("yield", e.url, e.depth, FALSE, st, ct, Parses(html), FALSE)
           /\ depths' = Append(depths, e.depth)
           /\ seen' = seen \cup {e.url}
           /\ q' = AfterPop(q)
    /\ done' = done + 1
    /\ nfetch' = nfetch + 1
    /\ cbs' = <<Call(done', q')>>
    /\ slept' = 0
    /\ pc' = "yielded"
    /\ UNCHANGED <<args, others, root_netloc, pats, ex_pats, deep>>

RECURSIVE ParseLinks_NoPendingCheck(_, _, _, _, _, _)
ParseLinks_NoPendingCheck(hrefs, url, depth, qq, sn, root) ==
    IF hrefs = <<>> THEN [q |-> qq, raised |-> FALSE]
    ELSE IF UrljoinRaises(Head(hrefs)) THEN [q |-> qq, raised |-> TRUE]
    ELSE LET u2 == Urljoin(url, Head(hrefs))
             clean == StripFragment(u2)
         IN  IF /\ u2.scheme \in {"http", "https"}
                /\ SameSite(u2, root)
                /\ clean \notin sn
             THEN ParseLinks_NoPendingCheck(Tail(hrefs), url, depth,
                             Append(qq, [url |-> clean, depth |-> depth + 1]), sn, root)
             ELSE ParseLinks_NoPendingCheck(Tail(hrefs), url, depth, qq, sn, root)

\* the anchor loop: enqueue the same-site http(s) links that are neither
\* visited nor pending; an href urljoin rejects ends the loop with ValueError
RECURSIVE ParseLinks(_, _, _, _, _, _)
ParseLinks(hrefs, url, depth, qq, sn, root) ==
    IF hrefs = <<>> THEN [q |-> qq, raised |-> FALSE]
    ELSE IF UrljoinRaises(Head(hrefs)) THEN [q |-> qq, raised |-> TRUE]
    ELSE LET u2 == Urljoin(url, Head(hrefs))
             clean == StripFragment(u2)
         IN  IF /\ u2.scheme \in {"http", "https"}
                /\ SameSite(u2, root)
                /\ clean \notin sn
                /\ \A i \in 1..Len(qq) : qq[i].url # clean
             THEN ParseLinks(Tail(hrefs), url, depth,
                             Append(qq, [url |-> clean, depth |-> depth + 1]), sn, root)
             ELSE ParseLinks(Tail(hrefs), url, depth, qq, sn, root)

\* the consumer asks for the next row: the iteration resumes after the yield
\* with the anchor loop and, when no href raised, the sleep; the except
\* handler reports progress
Resume ==
    /\ pc = "yielded"
    /\ LET res == ParseLinks(AnchorHrefs(cur.html), cur.url, cur.depth, q, seen, root_netloc)
       IN  /\ q' = res.q
           /\ deep' = deep \cup {res.q[i].url : i \in {j \in (Len(q) + 1)..Len(res.q) :
                                                        res.q[j].depth > max_depth}}
           /\ last' = Step("resume", cur.url, cur.depth, FALSE, 0, <<>>, TRUE, res.raised)
           /\ cbs' = IF res.raised THEN <<Call(done, res.q)>> ELSE <<>>
           /\ slept' = IF ~res.raised /\ delay > 0 THEN delay ELSE slept
    /\ cur' = NoCur
    /\ pc' = "loop"
    /\ UNCHANGED <<args, others, root_netloc, seen, pats, ex_pats, done, out, depths, nfetch>>

Next == Start \/ LoopExit \/ Skip \/ FetchFail \/ FetchYield \/ Resume

Spec == Init /\ [][Next]_vars

\* the crawls of https://ex/ for a*, with and without a delay
DelayInit == InitWith({Url("https", HostSeed, "/", "")}, {<< <<KwStem>>, <<>> >>}, Delays)

DelaySpec == DelayInit /\ [][Next]_vars

\* the seed "https://ex/#x"
SeedWithFragment == Url("https", HostSeed, "/", "x")

\* the crawls of a seed given with a fragment
FragmentInit ==
    InitWith({SeedWithFragment}, {<< <<KwStem>>, <<>> >>}, {d \in Delays : d > 0})

FragmentSpec == FragmentInit /\ [][Next]_vars

TypeOK ==
    /\ pc \in {"init", "loop", "yielded", "done", "raised"}
    /\ done = Len(out)
    /\ Len(depths) = Len(out)

\* ------------------------------------------------- scoring one text alone
\* the variables of crawl_iter
crawlvars == <<pc, seed, keywords, excludes, max_pages, max_depth, delay, root_netloc, q,
               seen, pats, ex_pats, done, cur, out, depths, deep, nfetch, last, cbs, slept>>

\* no crawl is running
NoCrawl ==
    /\ pc = "off"
    /\ seed = SeedBlank
    /\ keywords = <<>>
    /\ excludes = <<>>
    /\ max_pages = 0
    /\ max_depth = 0
    /\ delay = 0
    /\ root_netloc = <<>>
    /\ q = <<>>
    /\ seen = {}
    /\ pats = <<>>
    /\ ex_pats = <<>>
    /\ done = 0
    /\ cur = NoCur
    /\ out = <<>>
    /\ depths = <<>>
    /\ deep = {}
    /\ nfetch = 0
    /\ last = NoStep
    /\ cbs = <<>>
    /\ slept = 0

\* a keyword list, an exclusion list and an extracted text
ScoreInit ==
    /\ NoCrawl
    /\ runs = NoRuns
    /\ site = NoSite
    /\ doc = NoDoc
    /\ scan = NoScan
    /\ \E kws \in KeywordLists, text \in SeqsUpTo(TextChars, MaxTextLen) :
         \E exs \in ExcludeLists(kws) :
            sc = Scoring("input", kws, exs, text, <<>>, <<>>, NoRow)

\* pats = compile_kw_patterns(keywords); ex_pats likewise
ScoreCompile ==
    /\ sc.pc = "input"
    /\ LET kp == compile_kw_patterns(sc.keywords)
           ep == CompileExcludes(sc.excludes)
       IN  sc' = IF kp.raised THEN [sc EXCEPT !.pc = "raised"]
                 ELSE IF ep.raised THEN [sc EXCEPT !.pc = "raised", !.pats = kp.pats]
                 ELSE [sc EXCEPT !.pc = "compiled", !.pats = kp.pats, !.ex_pats = ep.pats]
    /\ UNCHANGED <<crawlvars, runs, site, doc, scan>>

\* kws, total = page_counts(text, pats, ex_pats) and the row built from them
ScoreText ==
    /\ sc.pc = "compiled"
    /\ sc' = [sc EXCEPT !.pc = "scored",
                        !.row = Row(NoUrl, page_counts(sc.text, sc.pats, sc.ex_pats))]
    /\ UNCHANGED <<crawlvars, runs, site, doc, scan>>

ScoreNext == ScoreCompile \/ ScoreText

ScoreSpec == ScoreInit /\ [][ScoreNext]_vars

\* ------------------------------------------------- two invocations, one site
\* the anchors of the two sites
LinkA == Href("", <<>>, "/a", "x", FALSE)
LinkLookalike == Href("https", HostLookalike, "/", "", FALSE)
LinkBad == Href("http", <<>>, "", "", TRUE)

UrlRoot == Url("https", HostSeed, "/", "")
UrlA == Url("https", HostSeed, "/a", "")

\* what requests.get returns for a URL: it raises, or a response
Response(neterr, status, ctype, html) ==
    [neterr |-> neterr, status |-> status, ctype |-> ctype, html |-> html]

Unreachable == Response(TRUE, 0, <<>>, RejectedPage)

Sites == {"plain", "broken"}

\* the response of a site to a URL, the same at every request
Resp(st, url) ==
    IF st = "plain"
    THEN IF url = UrlRoot
         THEN Response(FALSE, 200, <<"text", "/", "html">>,
                       MkPage(<<"a", "b">>, <<LinkA, LinkLookalike>>))
         ELSE IF url = UrlA
         THEN Response(FALSE, 200, <<"text", "/", "html">>, MkPage(<<"b">>, <<LinkA>>))
         ELSE IF url = Url("https", HostLookalike, "/", "")
         THEN Response(FALSE, 404, <<"text", "/", "html">>, RejectedPage)
         ELSE Unreachable
    ELSE IF url = UrlRoot
         THEN Response(FALSE, 200, <<"text", "/", "html">>,
                       MkPage(<<"b">>, <<LinkA, LinkBad, LinkLookalike>>))
         ELSE IF url = UrlA
         THEN Response(FALSE, 200, <<"application", "/", "pdf">>, RejectedPage)
         ELSE Unreachable

\* the arguments of an invocation
RunArgs ==
    [seed : {UrlRoot, UrlA}, max_pages : 1..MaxPagesBound, max_depth : {0, MaxDepthBound}]

FreshSeen_Shared(known) == known

\* seen: Set[str] = set(), created by the call, whatever other invocations
\* have visited
FreshSeen(known) == {}

\* an invocation that has not been started
NewRun(a) ==
    [pc |-> "init", args |-> a, root_netloc |-> <<>>, q |-> <<>>, seen |-> {},
     pats |-> <<>>, cur |-> NoCur, out |-> <<>>]

\* crawl_iter up to the loop, for the keyword list ["a*"]; known is what the
\* invocations before this one have visited
Started(r, known) ==
    LET start == NormaliseSeed(r.args.seed)
    IN  [r EXCEPT !.pc = "loop",
                  !.root_netloc = start.netloc,
                  !.seen = FreshSeen(known),
                  !.q = <<[url |-> start, depth |-> 0]>>,
                  !.pats = compile_kw_patterns(<<KwStem>>).pats]

\* one iteration of the loop up to its yield or its continue, or the return
Iterated(r, st) ==
    IF ~LoopCond(r.q, r.seen, r.args.max_pages) THEN [r EXCEPT !.pc = "done"]
    ELSE LET e == Popped(r.q)
             resp == Resp(st, e.url)
         IN  IF SkipCond(e.url, e.depth, r.seen, r.args.max_depth)
             THEN [r EXCEPT !.q = AfterPop(r.q)]
             ELSE IF \/ resp.neterr
                     \/ FetchRejected(resp.status, resp.ctype)
                     \/ ~Parses(resp.html)
             THEN [r EXCEPT !.q = AfterPop(r.q), !.seen = r.seen \cup {e.url}]
             ELSE [r EXCEPT !.q = AfterPop(r.q),
                            !.seen = r.seen \cup {e.url},
                            !.cur = [url |-> e.url, depth |-> e.depth, html |-> resp.html],
                            !.out = Append(r.out,
                                           Row(e.url, page_counts(extract_text(resp.html),
                                                                  r.pats, <<>>))),
                            !.pc = "yielded"]

\* the rest of the iteration after the yield: the anchor loop
Resumed(r) ==
    [r EXCEPT !.q = ParseLinks(AnchorHrefs(r.cur.html), r.cur.url, r.cur.depth,
                               r.q, r.seen, r.root_netloc).q,
              !.cur = NoCur,
              !.pc = "loop"]

\* two invocations of crawl_iter on one site
PairInit ==
    /\ NoCrawl
    /\ sc = NoScoring
    /\ doc = NoDoc
    /\ scan = NoScan
    /\ site \in Sites
    /\ runs \in [1..2 -> {NewRun(a) : a \in RunArgs}]

\* the first next() of invocation i
PairStart(i) ==
    /\ runs[i].pc = "init"
    /\ runs' = [runs EXCEPT ![i] = Started(runs[i], runs[3 - i].seen)]
    /\ UNCHANGED <<crawlvars, sc, site, doc, scan>>

\* invocation i runs one iteration of its loop
PairIterate(i) ==
    /\ runs[i].pc = "loop"
    /\ runs' = [runs EXCEPT ![i] = Iterated(runs[i], site)]
    /\ UNCHANGED <<crawlvars, sc, site, doc, scan>>

\* the consumer of invocation i asks for its next row
PairResume(i) ==
    /\ runs[i].pc = "yielded"
    /\ runs' = [runs EXCEPT ![i] = Resumed(runs[i])]
    /\ UNCHANGED <<crawlvars, sc, site, doc, scan>>

PairNext == \E i \in 1..2 : PairStart(i) \/ PairIterate(i) \/ PairResume(i)

PairSpec == PairInit /\ [][PairNext]_vars

\* --------------------------------------------------- one document alone
Max(a, b) == IF a >= b THEN a ELSE b

Min(a, b) == IF a <= b THEN a ELSE b

\* the context kept on each side of a match
ContextChars == 80

\* a text of n dashes, the word "a" and m dashes
LongText(n, m) == [i \in 1..n |-> "-"] \o <<"a">> \o [i \in 1..m |-> "-"]

\* the texts of the elements: "ab", "b", "a a"
DocTexts == { <<"a", "b">>, <<"b">>, <<"a", " ", "a">> }

\* the top-level elements of the documents: plain blocks, text outside the
\* allowed tags, a strong inside a p, blocks inside nav, aside and header (the
\* last two levels down), a footer inside a li, and paragraphs whose match has
\* more or less than ContextChars characters on its sides
Blocks ==
    {Node("p", t, <<>>) : t \in DocTexts}
    \cup { Node("h1", <<"a", "b">>, <<>>),
           Node("div", <<"a", "b">>, <<>>),
           Node("p", <<>>, <<Node("strong", <<"a", "b">>, <<>>)>>),
           Node("p", <<"b">>, <<Node("strong", <<"a", "b">>, <<>>)>>),
           Node("nav", <<>>, <<Node("p", <<"a", "b">>, <<>>)>>),
           Node("aside", <<>>, <<Node("p", <<"a", "b">>, <<>>)>>),
           Node("header", <<>>, <<Node("div", <<>>, <<Node("li", <<"a", "b">>, <<>>)>>)>>),
           Node("li", <<"b">>, <<Node("footer", <<>>, <<Node("span", <<"a", "b">>, <<>>)>>)>>) }
    \cup { Node("p", LongText(nm[1], nm[2]), <<>>) :
             nm \in { <<0, ContextChars + 1>>, <<ContextChars + 1, 0>>,
                      <<ContextChars, ContextChars>>,
                      <<ContextChars + 1, ContextChars + 1>> } }

Docs == {[parses |-> TRUE, elems |-> es] : es \in SeqsUpTo(Blocks, MaxElems)}

\* the keyword lists of the documents
DocKeywordLists == { <<KwStem>>, <<KwA>>, <<KwBStem, KwStem>> }

\* context.compile_kw_patterns: wildcard or literal, no raw patterns
ContextCompileOne(kw) ==
    IF kw[Len(kw)] = "*"
    THEN [kw |-> kw, kind |-> "stem", lit |-> SubSeq(kw, 1, Len(kw) - 1)]
    ELSE [kw |-> kw, kind |-> "word", lit |-> kw]

RECURSIVE ContextCompilePats(_, _)
ContextCompilePats(kws, acc) ==
    IF kws = <<>> THEN acc
    ELSE LET kw == Strip(Head(kws))
         IN  IF kw = <<>> \/ \E i \in 1..Len(acc) : acc[i].kw = kw
             THEN ContextCompilePats(Tail(kws), acc)
             ELSE ContextCompilePats(Tail(kws), Append(acc, ContextCompileOne(kw)))

\* " ".join(s.split()): the non-space characters, and one space for every
\* run of whitespace that has a non-space character on both sides
Collapse(s) ==
    LET keep(i) == \/ ~IsSpace(s[i])
                   \/ /\ i > 1 /\ ~IsSpace(s[i - 1])
                      /\ \E j \in (i + 1)..Len(s) : ~IsSpace(s[j])
        kept == SelectSeq([i \in 1..Len(s) |-> i], keep)
    IN  [k \in 1..Len(kept) |-> IF IsSpace(s[kept[k]]) THEN " " ELSE s[kept[k]]]

\* text[l:r]
Slice(text, l, r) ==
    LET n == Len(text)
        lo == IF l < 0 THEN Max(0, n + l) ELSE Min(l, n)
        hi == IF r < 0 THEN Max(0, n + r) ELSE Min(r, n)
    IN  SubSeq(text, lo + 1, hi)

WindowLeft_Unclamped(start) == start - ContextChars

\* left = max(0, start - 80)
WindowLeft(start) == Max(0, start - ContextChars)

\* right = min(len(text), end + 80)
WindowRight(end, n) == Min(n, end + ContextChars)

\* the elements below nodes in document order, each with the history of
\* whether one of its ancestors is a nav, header, footer or aside
RECURSIVE FlattenMarked(_, _)
FlattenMarked(nodes, inside) ==
    IF nodes = <<>> THEN <<>>
    ELSE <<[el |-> Head(nodes), boiler |-> inside]>>
         \o FlattenMarked(Head(nodes).kids, inside \/ Head(nodes).tag \in StrippedTags)
         \o FlattenMarked(Tail(nodes), inside)

\* the rows of one element for one pattern: matches[:max_per_kw]
SnippetRows(m, text, pat, max_per_kw) ==
    LET matches == FindSpans(pat, text, 1)
        taken == SubSeq(matches, 1, Min(max_per_kw, Len(matches)))
    IN  [i \in 1..Len(taken) |->
            [keyword |-> pat.kw, tag |-> m.el.tag,
             snippet |-> Slice(text, WindowLeft(taken[i].start),
                               WindowRight(taken[i].end, Len(text))),
             start |-> taken[i].start, end |-> taken[i].end,
             text |-> text, boiler |-> m.boiler]]

\* for kw, pat in patterns.items()
RECURSIVE TagRows(_, _, _, _)
TagRows(m, text, patterns, max_per_kw) ==
    IF patterns = <<>> THEN <<>>
    ELSE SnippetRows(m, text, Head(patterns), max_per_kw)
         \o TagRows(m, text, Tail(patterns), max_per_kw)

\* for tag in soup.find_all(ALLOWED_TAGS)
RECURSIVE AllRows(_, _, _)
AllRows(marked, patterns, max_per_kw) ==
    IF marked = <<>> THEN <<>>
    ELSE LET text == Collapse(GetText(Head(marked).el))
         IN  (IF Head(marked).el.tag \in ALLOWED_TAGS /\ text # <<>>
              THEN TagRows(Head(marked), text, patterns, max_per_kw)
              ELSE <<>>)
             \o AllRows(Tail(marked), patterns, max_per_kw)

\* context.extract_snippets; each row carries, as history, the text of its
\* element and whether the element lies in a stripped container
extract_snippets(html, kws, max_per_kw) ==
    AllRows(FlattenMarked(html.elems, FALSE), ContextCompilePats(kws, <<>>), max_per_kw)

\* a document, a keyword list and max_per_kw
DocInit ==
    /\ NoCrawl
    /\ sc = NoScoring
    /\ runs = NoRuns
    /\ site = NoSite
    /\ scan = NoScan
    /\ \E html \in Docs, kws \in DocKeywordLists, n \in 1..MaxPerKw :
          doc = [pc |-> "input", html |-> html, keywords |-> kws, max_per_kw |-> n,
                 row |-> NoRow, rows |-> <<>>]

\* the document is scored as crawl_iter scores a fetched page
DocScore ==
    /\ doc.pc = "input"
    /\ doc' = [doc EXCEPT !.pc = "scored",
                          !.row = Row(NoUrl, page_counts(extract_text(doc.html),
                                                         compile_kw_patterns(doc.keywords).pats,
                                                         <<>>))]
    /\ UNCHANGED <<crawlvars, sc, runs, site, scan>>

\* the document is searched for snippets
DocSnippets ==
    /\ doc.pc = "input"
    /\ doc' = [doc EXCEPT !.pc = "snipped",
                          !.rows = extract_snippets(doc.html, doc.keywords, doc.max_per_kw)]
    /\ UNCHANGED <<crawlvars, sc, runs, site, scan>>

DocNext == DocScore \/ DocSnippets

DocSpec == DocInit /\ [][DocNext]_vars

\* ============================================================= scan_pages
\* the URLs a targeted scan is given: "https://ex/", "https://ex/a" and the
\* scheme-less "ex/"
ScanUrls == {UrlRoot, UrlA, Url("", HostSeed, "/", "")}

\* the (keywords, excludes) argument pairs of a scan
ScanQueries ==
    { << <<KwStem>>, <<>> >>,
      << <<KwStem>>, <<KwWord>> >>,
      << <<KwBadRegex, KwStem>>, <<>> >> }

\* what requests.get may do for a URL that has a scheme: raise, or return a
\* page, an error status, a binary type, a type whose name holds "text", or
\* markup the parser rejects
ScanResponses ==
    { Unreachable,
      Response(FALSE, 200, <<"text", "/", "html">>, MkPage(<<"a", "b">>, <<>>)),
      Response(FALSE, 200, <<"text", "/", "html">>, MkPage(<<"b">>, <<LinkA>>)),
      Response(FALSE, 404, <<"text", "/", "html">>, MkPage(<<"a", "b">>, <<>>)),
      Response(FALSE, 200, <<"application", "/", "pdf">>, MkPage(<<"a", "b">>, <<>>)),
      Response(FALSE, 200, <<"application", "/", "vnd.oasis.opendocument.", "text">>,
               MkPage(<<"a", "b">>, <<>>)),
      Response(FALSE, 200, <<"text", "/", "html">>, RejectedPage) }

\* requests.get raises MissingSchema for a URL without a scheme; _cache_bust
\* keeps scheme, host and path and only adds the _gwts query parameter
MissingSchema(u) == u.scheme = ""

ScanRejected_TypeOnly(status, ctype) ==
    "text" \notin Range(ctype) /\ "html" \notin Range(ctype)

\* r.status_code >= 400 or ("text" not in ctype and "html" not in ctype)
ScanRejected(status, ctype) ==
    status >= 400 \/ ("text" \notin Range(ctype) /\ "html" \notin Range(ctype))

\* {"url": u, "keywords": kws, "hits": total, "total": total}
ScanRow(u, counts) ==
    [url |-> u, keywords |-> counts.keywords, hits |-> counts.total,
     total |-> counts.total]

\* compile_kw_patterns(excludes or []) if excludes else {}
ScanCompileExcludes(ex) ==
    IF ex = <<>> THEN [raised |-> FALSE, pats |-> <<>>] ELSE compile_kw_patterns(ex)

\* one pass of the try body for entry u: the request made (if any), what came
\* back, and the rows appended
ScanTry(u, resp, ps, eps) ==
    IF MissingSchema(u)
    THEN [requested |-> FALSE, rows |-> <<>>]
    ELSE IF resp.neterr
    THEN [requested |-> TRUE, rows |-> <<>>]
    ELSE IF ScanRejected(resp.status, resp.ctype)
    THEN [requested |-> TRUE, rows |-> <<>>]
    ELSE IF ~Parses(resp.html)
    THEN [requested |-> TRUE, rows |-> <<>>]
    ELSE [requested |-> TRUE,
          rows |-> <<ScanRow(u, page_counts(extract_text(resp.html), ps, eps))>>]

\* the arguments of a call of scan_pages
ScanInit ==
    /\ NoCrawl
    /\ sc = NoScoring
    /\ runs = NoRuns
    /\ site = NoSite
    /\ doc = NoDoc
    /\ \E us \in SeqsUpTo(ScanUrls, MaxUrls), qy \in ScanQueries :
          scan = [pc |-> "init", urls |-> us, keywords |-> qy[1], excludes |-> qy[2],
                  pats |-> <<>>, ex_pats |-> <<>>, i |-> 1, out |-> <<>>, log |-> <<>>,
                  returned |-> <<>>]

\* scan_pages up to its loop: the two compilations
ScanStart ==
    /\ scan.pc = "init"
    /\ LET kp == compile_kw_patterns(scan.keywords)
           ep == ScanCompileExcludes(scan.excludes)
       IN  scan' = IF kp.raised \/ ep.raised
                   THEN [scan EXCEPT !.pc = "raised"]
                   ELSE [scan EXCEPT !.pc = "loop", !.pats = kp.pats, !.ex_pats = ep.pats]
    /\ UNCHANGED <<crawlvars, sc, runs, site, doc>>

\* one iteration of for u in urls
ScanEntry ==
    /\ scan.pc = "loop"
    /\ scan.i <= Len(scan.urls)
    /\ \E resp \in ScanResponses :
          LET u == scan.urls[scan.i]
              t == ScanTry(u, resp, scan.pats, scan.ex_pats)
          IN  scan' = [scan EXCEPT !.i = @ + 1,
                                   !.out = @ \o t.rows,
                                   !.log = Append(@, [url |-> u, requested |-> t.requested,
                                                      resp |-> IF t.requested THEN resp
                                                               ELSE Unreachable])]
    /\ UNCHANGED <<crawlvars, sc, runs, site, doc>>

\* return out
ScanReturn ==
    /\ scan.pc = "loop"
    /\ scan.i > Len(scan.urls)
    /\ scan' = [scan EXCEPT !.pc = "done", !.returned = scan.out]
    /\ UNCHANGED <<crawlvars, sc, runs, site, doc>>

ScanNext == ScanStart \/ ScanEntry \/ ScanReturn

ScanSpec == ScanInit /\ [][ScanNext]_vars

\* ==================================================== one crawl of one site
LinkB == Href("", <<>>, "/b", "", FALSE)

UrlB == Url("https", HostSeed, "/b", "")

\* the sites crawled alone: the two sites above, a site whose root page
\* carries an href urljoin rejects before its link to /a, and a site whose
\* /b is linked from the root and from /a
CrawlSites == Sites \cup {"cut", "diamond"}

\* the response of a site to a URL, the same at every request
SiteResp(st, url) ==
    IF st = "cut"
    THEN IF url = UrlRoot
         THEN Response(FALSE, 200, <<"text", "/", "html">>,
                       MkPage(<<"a", "b">>, <<LinkBad, LinkA>>))
         ELSE IF url = UrlA
         THEN Response(FALSE, 200, <<"text", "/", "html">>, MkPage(<<"b">>, <<>>))
         ELSE Unreachable
    ELSE IF st = "diamond"
    THEN IF url = UrlRoot
         THEN Response(FALSE, 200, <<"text", "/", "html">>,
                       MkPage(<<"a", "b">>, <<LinkA, LinkB>>))
         ELSE IF url = UrlA
         THEN Response(FALSE, 200, <<"text", "/", "html">>, MkPage(<<"b">>, <<LinkB>>))
         ELSE IF url = UrlB
         THEN Response(FALSE, 200, <<"text", "/", "html">>, MkPage(<<"b">>, <<LinkA>>))
         ELSE Unreachable
    ELSE Resp(st, url)

\* the fetch of the site's response fails: requests.get raises, the response
\* is rejected, or the parser rejects the markup
SiteFails(r) == r.neterr \/ FetchRejected(r.status, r.ctype) \/ ~Parses(r.html)

\* a crawl of "https://ex/" on one of the sites
SiteInit ==
    /\ pc = "init"
    /\ seed = UrlRoot
    /\ keywords = <<KwStem>>
    /\ excludes = <<>>
    /\ max_pages \in 0..(MaxPagesBound + 1)
    /\ max_depth \in 0..MaxDepthBound
    /\ delay = 1
    /\ root_netloc = <<>>
    /\ q = <<>>
    /\ seen = {}
    /\ pats = <<>>
    /\ ex_pats = <<>>
    /\ done = 0
    /\ cur = NoCur
    /\ out = <<>>
    /\ depths = <<>>
    /\ deep = {}
    /\ nfetch = 0
    /\ last = NoStep
    /\ cbs = <<>>
    /\ slept = 0
    /\ sc = NoScoring
    /\ runs = NoRuns
    /\ site \in CrawlSites
    /\ doc = NoDoc
    /\ scan = NoScan

\* an iteration whose fetch fails: the except and the early continue
SiteFetchFail ==
    /\ Running(pc)
    /\ LoopCond(q, seen, max_pages)
    /\ LET e == Popped(q)
           r == SiteResp(site, e.url)
       IN  /\ ~SkipCond(e.url, e.depth, seen, max_depth)
           /\ SiteFails(r)
           /\ last' = IF r.neterr
                      THEN Step("fail", e.url, e.depth, TRUE, 0, <<>>, FALSE, FALSE)
                      ELSE Step("fail", e.url, e.depth, FALSE, r.status, r.ctype,
                                Parses(r.html), FALSE)
           /\ seen' = seen \cup {e.url}
           /\ q' = AfterPop(q)
    /\ nfetch' = nfetch + 1
    /\ cbs' = <<Call(done, q')>>
    /\ slept' = 0
    /\ UNCHANGED <<pc, args, others, root_netloc, pats, ex_pats, done, cur, out, depths, deep>>

\* an iteration that reaches the yield
SiteFetchYield ==
    /\ Running(pc)
    /\ LoopCond(q, seen, max_pages)
    /\ LET e == Popped(q)
           r == SiteResp(site, e.url)
       IN  /\ ~SkipCond(e.url, e.depth, seen, max_depth)
           /\ ~SiteFails(r)
           /\ cur' = [url |-> e.url, depth |-> e.depth, html |-> r.html]
           /\ out' = Append(out, Row(e.url, page_counts(extract_text(r.html), pats, ex_pats)))
           /\ last' = Step("yield", e.url, e.depth, FALSE, r.status, r.ctype,
                           Parses(r.html), FALSE)
           /\ depths' = Append(depths, e.depth)
           /\ seen' = seen \cup {e.url}
           /\ q' = AfterPop(q)
    /\ done' = done + 1
    /\ nfetch' = nfetch + 1
    /\ cbs' = <<Call(done', q')>>
    /\ slept' = 0
    /\ pc' = "yielded"
    /\ UNCHANGED <<args, others, root_netloc, pats, ex_pats, deep>>

SiteNext == Start \/ LoopExit \/ Skip \/ SiteFetchFail \/ SiteFetchYield \/ Resume

SiteSpec == SiteInit /\ [][SiteNext]_vars

\* ================================================================== claims

\* the URLs of the frontier entries
Pending == {q[i].url : i \in 1..Len(q)}

\* the number of yielded records whose url is u
RowsIn(rows, u) == Cardinality({i \in 1..Len(rows) : rows[i].url = u})

RowsFor(u) == RowsIn(out, u)

\* the latest step dequeued an entry and fetched it
Fetched(l) == l.op \in {"fail", "yield"}

\* the latest step raised an exception while processing its URL
Raised(l) ==
    \/ l.op = "fail" /\ (l.neterr \/ (~FetchRejected(l.status, l.ctype) /\ ~l.parses))
    \/ l.op = "resume" /\ l.linkerr

\* the content type is text/*
IsTextType(ct) == Len(ct) >= 2 /\ ct[1] = "text" /\ ct[2] = "/"

\* the content type names html
HasHtml(ct) == "html" \in Range(ct)

\* the host is the root host or a subdomain of it (label boundary)
IsSubdomainOrSame(netloc, root) ==
    \/ netloc = root
    \/ /\ EndsWith(netloc, root)
       /\ Len(netloc) > Len(root)
       /\ netloc[Len(netloc) - Len(root)] = "."

NonDecreasing(ds) == \A i, j \in 1..Len(ds) : i < j => ds[i] <= ds[j]

\* C1: with max_pages = N the visited set never holds more than N URLs, at
\* most N fetches are issued and at most N records are emitted.
C1_CrawlCap ==
    /\ Cardinality(seen) <= max_pages
    /\ nfetch <= max_pages
    /\ Len(out) <= max_pages

\* the cap stopped a crawl whose frontier still held entries
C1_Witness ==
    /\ pc = "done"
    /\ max_pages = 2
    /\ Cardinality(seen) = 2
    /\ q # <<>>

\* C2: no URL whose host is neither the seed's host nor a subdomain of it is
\* ever enqueued, fetched or emitted.
C2_OffDomainExcluded ==
    /\ \A u \in Pending \cup seen : IsSubdomainOrSame(u.netloc, root_netloc)
    /\ \A i \in 1..Len(out) : IsSubdomainOrSame(out[i].url.netloc, root_netloc)

\* C3: an exception raised while a dequeued URL is processed (fetch,
\* extraction, scoring, link parsing) leaves no record of that URL and no link
\* of that page in the frontier, and the crawl continues.
C3_ExceptionAbandonsUrl ==
    [][Raised(last') =>
         /\ RowsIn(out', last'.url) = 0
         /\ Pending' \subseteq Pending
         /\ pc' = "loop"]_vars

\* C4: a malformed raw /regex/ specification in the keyword or exclusion list
\* is dropped, the other specifications are compiled, and the crawl runs:
\* there is no fatal error.
C4_MalformedSpecDropped ==
    (pc # "init" /\ ~SeedIsBlank(seed)) =>
        /\ pc # "raised"
        /\ pats = CompilePats(SelectSeq(keywords, LAMBDA k : ~SpecRaises(k)), <<>>)
        /\ ex_pats = CompilePats(SelectSeq(excludes, LAMBDA k : ~SpecRaises(k)), <<>>)

\* C5: a response with status >= 400, or with a content type that is neither
\* text/* nor html, yields no record and no new frontier entry, and its URL
\* stays visited.
C5_RejectedResponse ==
    [][(Fetched(last') /\ ~last'.neterr
          /\ (last'.status >= 400 \/ ~(IsTextType(last'.ctype) \/ HasHtml(last'.ctype)))) =>
         /\ out' = out
         /\ q' = Tail(q)
         /\ last'.url \in seen']_vars

\* C6: entries leave the frontier in insertion order (each dequeue takes the
\* oldest entry, each enqueue is at the end), and the depths of the emitted
\* records never decrease.
C6_Fifo ==
    [][/\ last'.op \in {"skip", "fail", "yield"} =>
            /\ q' = Tail(q)
            /\ last'.url = Head(q).url
            /\ \A i \in 1..Len(q') : last'.depth <= q'[i].depth
       /\ last'.op = "resume" => SubSeq(q', 1, Len(q)) = q
       /\ NonDecreasing(depths')]_vars

\* records of two depths were emitted while the frontier held entries of two
\* depths
C6_Witness ==
    /\ Len(out) >= 2
    /\ depths[1] < depths[Len(out)]
    /\ \E i, j \in 1..Len(q) : q[i].depth < q[j].depth

\* C7: no URL discovered at a depth above max_depth is ever fetched, marked
\* visited or emitted; with max_depth = 0 at most one record is emitted, the
\* seed's.
C7_DepthCap ==
    /\ deep \cap seen = {}
    /\ \A i \in 1..Len(out) : out[i].url \notin deep /\ depths[i] <= max_depth
    /\ Fetched(last) => last.depth <= max_depth
    /\ max_depth = 0 =>
          /\ Len(out) <= 1
          /\ \A i \in 1..Len(out) : out[i].url = NormaliseSeed(seed)

\* an entry discovered above max_depth was dequeued and discarded
C7_Witness ==
    /\ last.op = "skip"
    /\ last.depth > max_depth
    /\ last.url \in deep
    /\ Len(out) >= 1

\* C8: with max_depth = 0 nothing is appended to the frontier once the seed
\* has been enqueued.
C8_NoExpansionAtDepthZero ==
    [][(max_depth = 0 /\ pc # "init") => Len(q') <= Len(q)]_vars

C10_TerminalState ==
    pc \in {"done", "raised"} => (q = <<>> \/ Cardinality(seen) = max_pages)

\* the kept matches of all patterns
RECURSIVE Surviving(_, _, _)
Surviving(text, patterns, exs) ==
    IF patterns = <<>> THEN 0
    ELSE Len(Kept(Head(patterns), text, exs)) + Surviving(text, Tail(patterns), exs)

\* the specifications with a kept match
Matching(text, patterns, exs) ==
    {patterns[i].kw : i \in {j \in 1..Len(patterns) : Kept(patterns[j], text, exs) # <<>>}}

\* C11: in every record hits = total = the number of surviving matches summed
\* over the specifications, keywords names exactly the specifications with a
\* surviving match (each once), and keywords is empty iff total is 0.
C11_RowCounts ==
    sc.pc = "scored" =>
        /\ sc.row.hits = sc.row.total
        /\ sc.row.total = Surviving(sc.text, sc.pats, sc.ex_pats)
        /\ Range(sc.row.keywords) = Matching(sc.text, sc.pats, sc.ex_pats)
        /\ Len(sc.row.keywords) = Cardinality(Range(sc.row.keywords))
        /\ (sc.row.keywords = <<>>) <=> (sc.row.total = 0)

\* a scored text in which a specification has a surviving match and an
\* excluded one ("ab a" scored for a* with ab excluded)
C11_Witness ==
    /\ sc.pc = "scored"
    /\ sc.ex_pats # <<>>
    /\ sc.row.total >= 1
    /\ \E i \in 1..Len(sc.pats) :
          /\ Len(Kept(sc.pats[i], sc.text, sc.ex_pats)) >= 1
          /\ Len(FindIter(sc.pats[i], sc.text, 1)) > Len(Kept(sc.pats[i], sc.text, sc.ex_pats))

\* C12: scoring any text with the exclusion list equal to the keyword list
\* gives total 0 and no keyword.
C12_SelfExclusion ==
    (sc.pc = "scored" /\ sc.excludes = sc.keywords) =>
        /\ sc.row.total = 0
        /\ sc.row.keywords = <<>>

\* the code point of a case-folded character of a specification
CodePoint(c) ==
    CASE Lower(c) = " " -> 32
      [] Lower(c) = "(" -> 40
      [] Lower(c) = ")" -> 41
      [] Lower(c) = "*" -> 42
      [] Lower(c) = "-" -> 45
      [] Lower(c) = "/" -> 47
      [] Lower(c) = "a" -> 97
      [] Lower(c) = "b" -> 98

\* s.lower() <= t.lower() as strings
RECURSIVE LexLeq(_, _)
LexLeq(s, t) ==
    IF s = <<>> THEN TRUE
    ELSE IF t = <<>> THEN FALSE
    ELSE IF CodePoint(Head(s)) # CodePoint(Head(t)) THEN CodePoint(Head(s)) < CodePoint(Head(t))
    ELSE LexLeq(Tail(s), Tail(t))

\* C13: the keyword list of every record is sorted case-insensitively by
\* specification text, whatever the order of the caller's keyword list.
C13_KeywordsSorted ==
    sc.pc = "scored" =>
        \A i, j \in 1..Len(sc.row.keywords) :
            i < j => LexLeq(sc.row.keywords[i], sc.row.keywords[j])

\* a specification that is neither a raw /regex/ nor a wildcard
IsLiteralSpec(kw) == ~IsRawSpec(kw) /\ kw[Len(kw)] # "*"

IsWildcardSpec(kw) == ~IsRawSpec(kw) /\ kw[Len(kw)] = "*"

\* the positions of the text where k occurs (case-insensitively)
Occurrences(k, text) == {i \in 1..Len(text) : LitAt(k, text, i)}

\* the scoring of a text for the single specification kw, nothing excluded
ScoredFor(kw) ==
    /\ sc.pc = "scored"
    /\ sc.excludes = <<>>
    /\ Len(sc.pats) = 1
    /\ sc.pats[1].kw = kw

\* C15: for a literal specification k, a text in which k stands between
\* non-word characters or text ends is scored with k reported and a count
\* >= 1; a text in which k occurs only inside a longer word is scored with no
\* match.
C15_LiteralWholeWord ==
    \A kw \in {Strip(s) : s \in UNION {Range(l) : l \in KeywordLists}} :
        (IsLiteralSpec(kw) /\ ScoredFor(kw)) =>
            /\ (\E i \in Occurrences(kw, sc.text) :
                    ~WordAt(sc.text, i - 1) /\ ~WordAt(sc.text, i + Len(kw)))
                 => (sc.row.keywords = <<kw>> /\ sc.row.total >= 1)
            /\ (/\ Occurrences(kw, sc.text) # {}
                /\ \A i \in Occurrences(kw, sc.text) :
                      WordAt(sc.text, i - 1) \/ WordAt(sc.text, i + Len(kw)))
                 => (sc.row.keywords = <<>> /\ sc.row.total = 0)

\* C16: for a wildcard specification k*, a text with a word that starts with
\* k (k after a non-word character or the text start, followed by zero or
\* more word characters) is scored with a match; a text in which k occurs only
\* in the middle or at the end of a word is scored with none.
C16_WildcardPrefix ==
    \A kw \in {Strip(s) : s \in UNION {Range(l) : l \in KeywordLists}} :
        (IsWildcardSpec(kw) /\ ScoredFor(kw)) =>
            LET k == SubSeq(kw, 1, Len(kw) - 1)
            IN  /\ (\E i \in Occurrences(k, sc.text) : ~WordAt(sc.text, i - 1))
                     => (sc.row.keywords = <<kw>> /\ sc.row.total >= 1)
                /\ (/\ Occurrences(k, sc.text) # {}
                    /\ \A i \in Occurrences(k, sc.text) : WordAt(sc.text, i - 1))
                     => (sc.row.keywords = <<>> /\ sc.row.total = 0)

\* C17: progress_cb is invoked exactly once for every dequeued entry (skipped,
\* failed, raising or yielding) and by no other step, with the number of
\* records produced so far, which never decreases, and the current length of
\* the frontier.
C17_ProgressOncePerDequeue ==
    [][/\ last'.op \in {"skip", "fail", "yield"} => cbs' = <<Call(Len(out'), q')>>
       /\ last'.op \notin {"skip", "fail", "yield"} => cbs' = <<>>
       /\ Len(out') >= Len(out)]_vars

\* C18: with delay > 0, a fetch that is not the first of its crawl is preceded,
\* since the fetch before it, by a sleep of delay seconds.
C18_SleepBetweenFetches ==
    [][(delay > 0 /\ nfetch >= 1 /\ nfetch' = nfetch + 1) => slept >= delay]_vars

\* C19: while a delivered record waits for the consumer (and before the first
\* next()), the only step is the consumer's request: no fetch is issued,
\* nothing is enqueued and no callback fires without it; a consumer that
\* stops pulling causes no further fetch.
C19_LazyBetweenPulls ==
    [][(pc \in {"init", "yielded"} /\ last'.op \notin {"start", "resume"}) =>
          /\ nfetch' = nfetch
          /\ q' = q
          /\ cbs' = <<>>]_vars

\* a second record was delivered while the frontier still holds an entry and
\* the page cap is not reached: the crawl would fetch again if it ran
C19_Witness ==
    /\ pc = "yielded"
    /\ Len(out) = 2
    /\ q # <<>>
    /\ Cardinality(seen) < max_pages
    /\ \E i \in 1..Len(q) : ~SkipCond(q[i].url, q[i].depth, seen, max_depth)

\* C20: the url of every record is fragment-stripped, the seed's record
\* included, and no two records have URLs that differ only in their fragment.
C20_FragmentStripped ==
    /\ \A i \in 1..Len(out) : out[i].url.fragment = ""
    /\ \A i, j \in 1..Len(out) :
          i # j => StripFragment(out[i].url) # StripFragment(out[j].url)

\* the state an invocation reaches from r when it runs alone to its end
RECURSIVE RunAlone(_, _)
RunAlone(r, st) ==
    IF r.pc = "done" THEN r
    ELSE IF r.pc = "init" THEN RunAlone(Started(r, {}), st)
    ELSE IF r.pc = "yielded" THEN RunAlone(Resumed(r), st)
    ELSE RunAlone(Iterated(r, st), st)

\* the records an invocation with arguments a emits when no other runs
AloneOut(a, st) == RunAlone(NewRun(a), st).out

IsPrefix(s, t) == Len(s) <= Len(t) /\ SubSeq(t, 1, Len(s)) = s

BoilerTags == {"nav", "header", "footer", "aside"}

\* the elements with every text that lies inside a nav, header, footer or
\* aside removed, the structure kept
RECURSIVE Blanked(_, _)
Blanked(nodes, inside) ==
    IF nodes = <<>> THEN <<>>
    ELSE LET n == Head(nodes)
             in == inside \/ n.tag \in BoilerTags
         IN  <<[n EXCEPT !.text = IF in THEN <<>> ELSE n.text,
                         !.kids = Blanked(n.kids, in)]>>
             \o Blanked(Tail(nodes), inside)

WithoutBoilerText(html) == [html EXCEPT !.elems = Blanked(html.elems, FALSE)]

\* the record crawl_iter builds for a document and a keyword list
RecordOf(html, kws) ==
    Row(NoUrl, page_counts(extract_text(html), compile_kw_patterns(kws).pats, <<>>))

\* C23: text inside a nav, header, footer or aside, at any nesting depth,
\* does not contribute to the record: the record of a page equals the record
\* of the same page with that text removed.
C23_BoilerplateIgnored ==
    doc.pc = "scored" => doc.row = RecordOf(WithoutBoilerText(doc.html), doc.keywords)

\* a scored page with a match in its content and a matching text two levels
\* down in a header
C23_Witness ==
    /\ doc.pc = "scored"
    /\ doc.row.total >= 1
    /\ \E i \in 1..Len(doc.html.elems) :
          /\ doc.html.elems[i].tag = "header"
          /\ RecordOf([parses |-> TRUE, elems |-> Flatten(doc.html.elems[i].kids)],
                      doc.keywords).total >= 1

\* the strings that lie in an allowed element outside every nav, header,
\* footer and aside, each once, in document order
RECURSIVE ContentPieces(_, _)
ContentPieces(nodes, allowed) ==
    IF nodes = <<>> THEN <<>>
    ELSE LET n == Head(nodes)
             al == allowed \/ n.tag \in ALLOWED_TAGS
         IN  (IF n.tag \in BoilerTags THEN <<>>
              ELSE (IF al /\ Strip(n.text) # <<>> THEN <<Strip(n.text)>> ELSE <<>>)
                   \o ContentPieces(n.kids, al))
             \o ContentPieces(Tail(nodes), allowed)

\* C29: every occurrence of a keyword in the content-bearing text of a page
\* adds exactly 1 to the record's total, also inside an allowed element nested
\* in another allowed element.
C29_OccurrenceCountsOnce ==
    doc.pc = "scored" =>
        doc.row.total = Surviving(JoinLines(ContentPieces(doc.html.elems, FALSE)),
                                  compile_kw_patterns(doc.keywords).pats, <<>>)

\* the rows returned for the searched document
SnippetsOf == doc.rows

\* C24: no returned snippet comes from an element that has a nav, header,
\* footer or aside element among its ancestors.
C24_NoBoilerplateSnippets ==
    doc.pc = "snipped" => \A i \in 1..Len(SnippetsOf) : ~SnippetsOf[i].boiler

\* C25: the number of rows returned for any single keyword is at most
\* max_per_kw, however many elements contain the keyword.
C25_CapPerKeyword ==
    doc.pc = "snipped" =>
        \A k \in Range(doc.keywords) :
            Cardinality({i \in 1..Len(SnippetsOf) : SnippetsOf[i].keyword = k})
                <= doc.max_per_kw

\* the window of a row, computed from its match and the text of its element
RowLeft(r) == IF r.start - ContextChars < 0 THEN 0 ELSE r.start - ContextChars

RowRight(r) == IF r.end + ContextChars > Len(r.text) THEN Len(r.text) ELSE r.end + ContextChars

\* C26: every snippet is text[max(0, start-80) : min(len(text), end+80)] of
\* the text of its element: the window lies inside the text, contains the whole
\* match and is at most 2*80 + match_length characters long.
C26_SnippetWindow ==
    doc.pc = "snipped" =>
        \A i \in 1..Len(SnippetsOf) :
            LET r == SnippetsOf[i]
            IN  /\ 0 <= r.start /\ r.start < r.end /\ r.end <= Len(r.text)
                /\ r.snippet = SubSeq(r.text, RowLeft(r) + 1, RowRight(r))
                /\ RowLeft(r) <= r.start /\ r.end <= RowRight(r)
                /\ SubSeq(r.snippet, r.start - RowLeft(r) + 1, r.end - RowLeft(r))
                       = SubSeq(r.text, r.start + 1, r.end)
                /\ Len(r.snippet) <= 2 * ContextChars + (r.end - r.start)

\* a searched document with a match that has more than 80 characters on both
\* sides, and a match at the very beginning and one at the very end of a text
C26_Witness ==
    /\ doc.pc = "snipped"
    /\ \E i \in 1..Len(SnippetsOf) :
          /\ SnippetsOf[i].start > ContextChars
          /\ SnippetsOf[i].end + ContextChars < Len(SnippetsOf[i].text)
          /\ Len(SnippetsOf[i].snippet) = 2 * ContextChars + 1
    /\ \E i \in 1..Len(SnippetsOf) : SnippetsOf[i].start = 0
    /\ \E i \in 1..Len(SnippetsOf) : SnippetsOf[i].end = Len(SnippetsOf[i].text)

\* the tag names in alphabetical order
TagOrder ==
    <<"a", "em", "h1", "h2", "h3", "h4", "h5", "h6", "li", "p", "span", "strong">>

TagIndex(t) == CHOOSE k \in 1..Len(TagOrder) : TagOrder[k] = t

\* row r may stand before row s: smaller keyword (case-insensitively), or the
\* same keyword and a tag name that is not larger
RowLeq(r, s) ==
    IF LexLeq(r.keyword, s.keyword) /\ LexLeq(s.keyword, r.keyword)
    THEN TagIndex(r.tag) <= TagIndex(s.tag)
    ELSE LexLeq(r.keyword, s.keyword)

\* C27: the returned list is ordered by keyword (case-insensitively) and,
\* within one keyword, by tag name.
C27_RowsOrdered ==
    doc.pc = "snipped" =>
        \A i, j \in 1..Len(SnippetsOf) : i < j => RowLeq(SnippetsOf[i], SnippetsOf[j])

\* what crawl_iter emits for a URL whose request ended as resp: the rows it
\* yields for that page under the compiled keywords and exclusions
CrawlEmits(url, resp, ps, eps) ==
    IF resp.neterr \/ FetchRejected(resp.status, resp.ctype) \/ ~Parses(resp.html)
    THEN <<>>
    ELSE <<Row(url, page_counts(extract_text(resp.html), ps, eps))>>

\* the rows of the first n log entries, entry by entry, in list order
RECURSIVE EntryRows(_, _, _, _)
EntryRows(lg, n, ps, eps) ==
    IF n = 0 THEN <<>>
    ELSE EntryRows(lg, n - 1, ps, eps)
         \o (IF lg[n].requested THEN CrawlEmits(lg[n].url, lg[n].resp, ps, eps) ELSE <<>>)

\* C21: scan_pages requests only the entries of its list, in list order, and
\* its output is, in that order, for each entry whose fetch succeeded the row
\* crawl_iter emits for the same response, keywords and exclusions; the row
\* of an entry depends on that entry alone.
C21_ScanMatchesCrawl ==
    scan.pc \in {"loop", "done"} =>
        /\ Len(scan.log) = scan.i - 1
        /\ \A k \in 1..Len(scan.log) : scan.log[k].url = scan.urls[k]
        /\ scan.out = EntryRows(scan.log, Len(scan.log), scan.pats, scan.ex_pats)
        /\ scan.pc = "done" => scan.returned = scan.out

\* a finished scan of two entries: the first failed, the second gave a row
\* with a hit
C21_Witness ==
    /\ scan.pc = "done"
    /\ Len(scan.urls) = 2
    /\ scan.log[1].requested /\ scan.log[1].resp.status = 404
    /\ Len(scan.returned) = 1
    /\ scan.returned[1].url = scan.urls[2]
    /\ scan.returned[1].total >= 1

\* C22: a URL without a scheme in the URL list of a targeted scan is fetched
\* (as https://<url>) like any other entry.
C22_SchemelessEntryFetched ==
    \A k \in 1..Len(scan.log) : scan.log[k].requested

\* the entries of a frontier are pairwise distinct URLs
DistinctUrls(qq) == \A i, j \in 1..Len(qq) : i # j => qq[i].url # qq[j].url

\* C28: in every state of a crawl the visited set only grows, the pending
\* URLs are pairwise distinct and none of them is visited; a dequeued URL is
\* not yet visited, and a URL that is fetched was not visited before.
C28_FrontierDisjoint ==
    [][ /\ seen \subseteq seen'
        /\ DistinctUrls(q')
        /\ {q'[i].url : i \in 1..Len(q')} \cap seen' = {}
        /\ Len(q') < Len(q) => Head(q).url \notin seen
        /\ nfetch' > nfetch => last'.url \notin seen /\ last'.url \in seen' ]_vars

\* two URLs are visited, another one is pending, and the anchors of the
\* second page have been handled
C28_Witness ==
    /\ last.op = "resume"
    /\ nfetch >= 2
    /\ Cardinality(seen) >= 2
    /\ q # <<>>

\* a response whose page the crawl is to read: no network error, status
\* below 400, an HTML or text type, markup the parser accepts
PageOk(r) ==
    /\ ~r.neterr
    /\ r.status < 400
    /\ (IsTextType(r.ctype) \/ HasHtml(r.ctype))
    /\ Parses(r.html)

\* the same-domain URLs the anchors of the page at u lead to
SiteLinks(st, u, root) ==
    LET r == SiteResp(st, u)
    IN  IF ~PageOk(r) THEN {}
        ELSE {StripFragment(Urljoin(u, h)) :
                h \in {hh \in Range(AnchorHrefs(r.html)) :
                         /\ ~UrljoinRaises(hh)
                         /\ Urljoin(u, hh).scheme \in {"http", "https"}
                         /\ IsSubdomainOrSame(Urljoin(u, hh).netloc, root)}}

\* the URLs at most k link hops from start
RECURSIVE WithinHops(_, _, _)
WithinHops(st, start, k) ==
    IF k = 0 THEN {start}
    ELSE LET prev == WithinHops(st, start, k - 1)
         IN  prev \cup UNION {SiteLinks(st, u, start.netloc) : u \in prev}

\* the minimal number of link hops from start to u
HopDistance(st, start, u) ==
    CHOOSE k \in 0..(MaxDepthBound + 1) :
        /\ u \in WithinHops(st, start, k)
        /\ k > 0 => u \notin WithinHops(st, start, k - 1)

\* C30: a crawl that ends with fewer than max_pages URLs visited has visited
\* every same-domain URL within max_depth link hops of the seed through
\* successfully fetched pages, each at a depth equal to its hop distance.
C30_ReachableVisited ==
    [][ /\ (pc' = "done" /\ Cardinality(seen') < max_pages')
            => WithinHops(site', seed', max_depth') \subseteq seen'
        /\ (nfetch' > nfetch /\ last'.url \in WithinHops(site', seed', max_depth'))
            => last'.depth = HopDistance(site', seed', last'.url) ]_vars

====
